---- MODULE Spec2Model ----
(***************************************************************************)
(* Crime-data ingestion pipeline of muneeni-ux/Data_Analytics:             *)
(*   src/Q4.py   the "robust" crime analysis script (q5_data table)        *)
(*   src/All.py  the multi-project notebook, whose last section analyses   *)
(*               the same q5_data table                                    *)
(* Both are straight-line scripts: the program counter pc walks through    *)
(* the numbered sections of the script.  The pure helpers of Q4.py         *)
(* (find_col, fix_time, extract_coord) are operators, each also driven by  *)
(* a small specification of its own that applies it to bounded inputs.     *)
(*                                                                         *)
(* Text is a sequence of one-character strings, so that substring tests,   *)
(* case folding and regular-expression matching are computed.              *)
(***************************************************************************)
EXTENDS Integers, Sequences, FiniteSets, TLC

VARIABLES
    script,     \* which script runs: "Q4", "All", or "lib" (a helper is called alone)
    pc,         \* the section of the script about to run; "done" / "raised" at the end
    db,         \* the q5_data table held by the database (fixed during a run)
    conn,       \* the name conn: "unbound", "open" or "closed"
    acquired,   \* how many times mysql.connector.connect returned a connection
    df,         \* the DataFrame df (Q4.py) / df_q5 (All.py); NoFrame before the load
    loaded_len, \* the number of rows the load returned
    df_time,    \* Q4.py: df[df["DATE_OCC"].notna()].copy(); NoFrame before section 8
    aggs,       \* the aggregate tables computed so far, by name
    files,      \* the files written under OUTPUT_DIR
    shown,      \* All.py: the figures handed to plt.show()
    cols_lower, \* Q4.py: the columns the cols_lower dict was built from (line 134)
    call,       \* a helper call: its function, arguments and return value
    fallback,   \* Q4.py: the name fallback (line 78), bound when the retry is made
    plotted,    \* Q4.py: the rows of the tables handed to the two charts
    area_col,   \* Q4.py: the name area_col (line 149)
    crime_col,  \* Q4.py: the name crime_col (line 156)
    fallback_date \* Q4.py: the name fallback_date (line 165)

vars == <<script, pc, db, conn, acquired, df, loaded_len, df_time, aggs, files, shown,
          cols_lower, call,
          fallback, plotted, area_col, crime_col, fallback_date>>

-----------------------------------------------------------------------------
(* Bounds of the model *)

\* rows of the tables the driver specification loads
MaxRows == 2
\* rows of the tables the date-parsing specification loads
MaxDateRows == 10
\* rows of the tables the aggregation specification loads
MaxAggRows == 3

\* rows and areas of the tables the chart specification loads
MaxChartRows == 12
MaxChartAreas == 12

\* columns / candidates of the lists find_col is applied to
MaxCols == 2
MaxCands == 2
\* characters of the raw TIME_OCC values fix_time is applied to
MaxTimeLen == 5
\* characters of the raw LOCATION texts extract_coord is applied to
MaxTextLen == 7

-----------------------------------------------------------------------------
(* Text *)

Range(s) == {s[i] : i \in 1..Len(s)}

Min(S) == CHOOSE x \in S : \A y \in S : x <= y

Max(S) == CHOOSE x \in S : \A y \in S : x >= y

SeqsUpTo(S, n) == UNION {[1..k -> S] : k \in 0..n}

UpperChars == <<"A","B","C","D","E","F","G","H","I","J","K","L","M",
                "N","O","P","Q","R","S","T","U","V","W","X","Y","Z">>

LowerChars == <<"a","b","c","d","e","f","g","h","i","j","k","l","m",
                "n","o","p","q","r","s","t","u","v","w","x","y","z">>

Digits == <<"0","1","2","3","4","5","6","7","8","9">>

\* str.lower() on one character
LowerChar(c) ==
    IF \E i \in 1..Len(UpperChars) : UpperChars[i] = c
    THEN LowerChars[CHOOSE i \in 1..Len(UpperChars) : UpperChars[i] = c]
    ELSE c

\* str.lower()
Lower(s) == [i \in 1..Len(s) |-> LowerChar(s[i])]

\* Python's  sub in s  on strings
Contains(sub, s) ==
    \E i \in 0..(Len(s) - Len(sub)) : \A j \in 1..Len(sub) : s[i + j] = sub[j]

IsDigit(c) == \E i \in 1..Len(Digits) : Digits[i] = c

DigitVal(c) == (CHOOSE i \in 1..Len(Digits) : Digits[i] = c) - 1

\* \s of the re module, on the characters the model uses
IsSpace(c) == c \in {" ", "\t", "\n"}

\* str.strip()
RECURSIVE LStrip(_)
LStrip(s) == IF s # <<>> /\ IsSpace(Head(s)) THEN LStrip(Tail(s)) ELSE s

RECURSIVE RStrip(_)
RStrip(s) ==
    IF s # <<>> /\ IsSpace(s[Len(s)]) THEN RStrip(SubSeq(s, 1, Len(s) - 1)) ELSE s

Strip(s) == RStrip(LStrip(s))

\* SQL NULL / None / NaN in a text cell: no text is a sequence holding this
Null == <<"<null>">>

\* the None that find_col returns
NoCol == <<"<none>">>

-----------------------------------------------------------------------------
(* Column names and candidate lists of Q4.py *)

N_Date_Rptd == <<"D","a","t","e","_","R","p","t","d">>

N_DATE_OCC == <<"D","A","T","E","_","O","C","C">>

N_TIME_OCC == <<"T","I","M","E","_","O","C","C">>

N_TIME_OCC_parsed == <<"T","I","M","E","_","O","C","C","_","p","a","r","s","e","d">>

N_LOCATION == <<"L","O","C","A","T","I","O","N">>

N_Lat == <<"L","a","t">>

N_Lon == <<"L","o","n">>

N_AREA_NAME == <<"A","R","E","A","_","N","A","M","E">>

N_Crm_Cd_Desc == <<"C","r","m","_","C","d","_","D","e","s","c">>

N_AREA_NAME_alias == N_AREA_NAME \o <<"_","a","l","i","a","s">>

N_Crm_Cd_Desc_alias == N_Crm_Cd_Desc \o <<"_","a","l","i","a","s">>

\* All.py line 189
N_Date == <<"D","a","t","e">>

\* Q4.py line 149
AreaCandidates ==
    << N_AREA_NAME, Lower(N_AREA_NAME), <<"a","r","e","a">>,
       <<"n","e","i","g","h","b","o","r","h","o","o","d">>, <<"b","e","a","t">>,
       Lower(N_LOCATION) >>

\* Q4.py line 156
CrimeCandidates ==
    << N_Crm_Cd_Desc, Lower(N_Crm_Cd_Desc), <<"c","r","m">>, <<"c","r","i","m","e">>,
       <<"o","f","f","e","n","s","e">>,
       <<"d","e","s","c","r","i","p","t","i","o","n">> >>

\* Q4.py line 165
DateCandidates ==
    << Lower(N_Date_Rptd), <<"d","a","t","e">>,
       <<"d","a","t","e","_","r","e","p","o","r","t","e","d">>, Lower(N_DATE_OCC) >>

\* the text "Unknown"
Unknown == <<"U","n","k","n","o","w","n">>

-----------------------------------------------------------------------------
(* Column Resolver: find_col and the cols_lower map, Q4.py lines 134-146 *)

\* cols_lower = {c.lower(): c for c in df.columns}: the keys of the dict, in
\* the order of their first insertion
RECURSIVE ColsLowerKeys(_)
ColsLowerKeys(cols) ==
    IF cols = <<>> THEN <<>>
    ELSE LET init == ColsLowerKeys(SubSeq(cols, 1, Len(cols) - 1))
             k    == Lower(cols[Len(cols)])
         IN  IF k \in Range(init) THEN init ELSE Append(init, k)

\* cols_lower[k]: a later column of the same lowered name overwrites an earlier one
ColsLowerGet(cols, k) ==
    cols[Max({i \in 1..Len(cols) : Lower(cols[i]) = k})]

\* the first loop of find_col: candidates in order, exact lowered name
FindColExact(cols, possible_names) ==
    LET keys == ColsLowerKeys(cols)
        hit  == {j \in 1..Len(possible_names) : Lower(possible_names[j]) \in Range(keys)}
    IN  IF hit = {} THEN NoCol
        ELSE ColsLowerGet(cols, Lower(possible_names[Min(hit)]))

\* the second loop of find_col: the columns in the outer loop, the candidates in
\* the inner one; the first column that contains any candidate is returned
FindColSubstring(cols, possible_names) ==
    LET keys == ColsLowerKeys(cols)
        hit  == {k \in 1..Len(keys) :
                    \E j \in 1..Len(possible_names) :
                        Contains(Lower(possible_names[j]), keys[k])}
    IN  IF hit = {} THEN NoCol ELSE ColsLowerGet(cols, keys[Min(hit)])

\* find_col without its first loop (substring matches only)
FindColNoExact(cols, possible_names) == FindColSubstring(cols, possible_names)

find_col(cols, possible_names) ==
    IF FindColExact(cols, possible_names) # NoCol
    THEN FindColExact(cols, possible_names)
    ELSE FindColSubstring(cols, possible_names)

-----------------------------------------------------------------------------
(* Time-of-day parsing: fix_time, Q4.py lines 88-102 *)

\* the None that fix_time returns
NoTime == <<>>

\* re.sub(r"\D", "", s)
RECURSIVE OnlyDigits(_)
OnlyDigits(s) ==
    IF s = <<>> THEN <<>>
    ELSE IF IsDigit(Head(s)) THEN <<Head(s)>> \o OnlyDigits(Tail(s))
    ELSE OnlyDigits(Tail(s))

\* str.zfill(width): zeros on the left up to width, longer text unchanged
RECURSIVE ZFill(_, _)
ZFill(s, width) == IF Len(s) >= width THEN s ELSE ZFill(<<"0">> \o s, width)

\* int() of a digit string
RECURSIVE IntOf(_)
IntOf(s) ==
    IF s = <<>> THEN 0
    ELSE 10 * IntOf(SubSeq(s, 1, Len(s) - 1)) + DigitVal(s[Len(s)])

\* the alternatives of %H in the order the pattern tries them,
\* 2[0-3] | [0-1]\d | \d, as the number of characters each would take at s[1..]
HourAlternatives(s) ==
    (IF Len(s) >= 2 /\ s[1] = "2" /\ s[2] \in {"0", "1", "2", "3"}
     THEN <<2>> ELSE <<>>)
    \o (IF Len(s) >= 2 /\ s[1] \in {"0", "1"} /\ IsDigit(s[2]) THEN <<2>> ELSE <<>>)
    \o (IF Len(s) >= 1 /\ IsDigit(s[1]) THEN <<1>> ELSE <<>>)

\* the alternatives of %M, [0-5]\d | \d, after the first h characters
MinuteAlternatives(s, h) ==
    (IF Len(s) >= h + 2 /\ s[h + 1] \in {"0", "1", "2", "3", "4", "5"} /\ IsDigit(s[h + 2])
     THEN <<2>> ELSE <<>>)
    \o (IF Len(s) >= h + 1 /\ IsDigit(s[h + 1]) THEN <<1>> ELSE <<>>)

\* pd.to_datetime(s, format="%H%M", errors="coerce").time(): the pattern is
\* matched at the start of s with backtracking over the alternatives; text left
\* over after the match, or no match, gives NaT, whose .time() raises
StrptimeHM(s) ==
    LET hs == SelectSeq(HourAlternatives(s), LAMBDA h : MinuteAlternatives(s, h) # <<>>)
    IN  IF hs = <<>> THEN NoTime
        ELSE LET h == Head(hs)
                 m == Head(MinuteAlternatives(s, h))
             IN  IF h + m # Len(s) THEN NoTime
                 ELSE <<IntOf(SubSeq(s, 1, h)), IntOf(SubSeq(s, h + 1, h + m))>>

\* fix_time without the zfill(4)
FixTimeNoPad(x) ==
    IF x = Null THEN NoTime
    ELSE IF OnlyDigits(Strip(x)) = <<>> THEN NoTime
    ELSE StrptimeHM(OnlyDigits(Strip(x)))

fix_time(x) ==
    IF x = Null THEN NoTime
    ELSE IF OnlyDigits(Strip(x)) = <<>> THEN NoTime
    ELSE StrptimeHM(ZFill(OnlyDigits(Strip(x)), 4))

-----------------------------------------------------------------------------
(* Geo extraction: extract_coord, Q4.py lines 112-123 *)

\* (np.nan, np.nan)
NoCoord == <<>>

\* the pattern ([-+]?\d{1,3}\.\d+)[, ]+\s*([-+]?\d{1,3}\.\d+) as its items in
\* order: a character class and how many times it may repeat (max 0: no limit)
CoordPattern ==
    << [cls |-> "sign",  min |-> 0, max |-> 1],
       [cls |-> "digit", min |-> 1, max |-> 3],
       [cls |-> "dot",   min |-> 1, max |-> 1],
       [cls |-> "digit", min |-> 1, max |-> 0],
       [cls |-> "sep",   min |-> 1, max |-> 0],
       [cls |-> "space", min |-> 0, max |-> 0],
       [cls |-> "sign",  min |-> 0, max |-> 1],
       [cls |-> "digit", min |-> 1, max |-> 3],
       [cls |-> "dot",   min |-> 1, max |-> 1],
       [cls |-> "digit", min |-> 1, max |-> 0] >>

InClass(c, cls) ==
    CASE cls = "sign"  -> c \in {"-", "+"}
      [] cls = "digit" -> IsDigit(c)
      [] cls = "dot"   -> c = "."
      [] cls = "sep"   -> c \in {",", " "}
      [] cls = "space" -> IsSpace(c)

\* how many characters from position pos on are in the class, up to limit
RECURSIVE RunLength(_, _, _, _)
RunLength(s, pos, cls, limit) ==
    IF limit = 0 \/ pos > Len(s) \/ ~InClass(s[pos], cls) THEN 0
    ELSE 1 + RunLength(s, pos + 1, cls, limit - 1)

NoMatch == <<-1>>

\* the backtracking matcher: item it of the pattern at position pos takes as
\* many characters as it can and gives them back one at a time until the rest
\* of the pattern matches; the result is the count taken by each item
RECURSIVE MatchFrom(_, _, _, _), MatchTaking(_, _, _, _, _)
MatchFrom(pat, s, pos, it) ==
    IF it > Len(pat) THEN <<>>
    ELSE LET limit == IF pat[it].max = 0 THEN Len(s) ELSE pat[it].max
         IN  MatchTaking(pat, s, pos, it, RunLength(s, pos, pat[it].cls, limit))

MatchTaking(pat, s, pos, it, n) ==
    IF n < pat[it].min THEN NoMatch
    ELSE LET rest == MatchFrom(pat, s, pos + n, it + 1)
         IN  IF rest # NoMatch THEN <<n>> \o rest
             ELSE MatchTaking(pat, s, pos, it, n - 1)

RECURSIVE SumSeq(_)
SumSeq(q) == IF q = <<>> THEN 0 ELSE Head(q) + SumSeq(Tail(q))

\* what re.search / re.match return when nothing matches
NoHit == [start |-> 0, counts |-> <<>>]

\* re.search: the match at the leftmost position that has one
ReSearch(pat, s) ==
    LET starts == {i \in 1..(Len(s) + 1) : MatchFrom(pat, s, i, 1) # NoMatch}
    IN  IF starts = {} THEN NoHit
        ELSE [start |-> Min(starts), counts |-> MatchFrom(pat, s, Min(starts), 1)]

\* re.match: the pattern is tried at the start of the text only
ReMatch(pat, s) ==
    IF MatchFrom(pat, s, 1, 1) = NoMatch THEN NoHit
    ELSE [start |-> 1, counts |-> MatchFrom(pat, s, 1, 1)]

RECURSIVE DropTrailingZeros(_)
DropTrailingZeros(s) ==
    IF s # <<>> /\ s[Len(s)] = "0" THEN DropTrailingZeros(SubSeq(s, 1, Len(s) - 1))
    ELSE s

\* float() of a text [-+]?digits.digits: the sign, the integer part and the
\* fraction digits that count
Float(t) ==
    LET signed == t[1] \in {"-", "+"}
        body   == IF signed THEN Tail(t) ELSE t
        dot    == CHOOSE i \in 1..Len(body) : body[i] = "."
    IN  [neg   |-> t[1] = "-",
         units |-> IntOf(SubSeq(body, 1, dot - 1)),
         frac  |-> DropTrailingZeros(SubSeq(body, dot + 1, Len(body)))]

\* the two groups of a match as floats
CoordOfMatch(s, m) ==
    LET c  == m.counts
        l1 == c[1] + c[2] + c[3] + c[4]
        s2 == m.start + l1 + c[5] + c[6]
        l2 == c[7] + c[8] + c[9] + c[10]
    IN  << Float(SubSeq(s, m.start, m.start + l1 - 1)),
           Float(SubSeq(s, s2, s2 + l2 - 1)) >>

\* extract_coord with re.match in place of re.search
ExtractCoordAtStart(text) ==
    IF text = Null THEN NoCoord
    ELSE IF ReMatch(CoordPattern, text) = NoHit THEN NoCoord
    ELSE CoordOfMatch(text, ReMatch(CoordPattern, text))

extract_coord(text) ==
    IF text = Null THEN NoCoord
    ELSE IF ReSearch(CoordPattern, text) = NoHit THEN NoCoord
    ELSE CoordOfMatch(text, ReSearch(CoordPattern, text))

-----------------------------------------------------------------------------
(* Timestamps and date cells *)

\* NaT; a timestamp is a positive day number
NaT == 0

\* A date cell is what each parsing policy makes of it: p under the default
\* policy of pd.to_datetime, d under dayfirst=True.  pd.to_datetime itself is
\* the library's; what it yields for a raw cell is an input of the model.
RawDate(p, d) == [p |-> p, d |-> d]

\* A parsed cell (datetime64, or NaT): every policy returns it unchanged
Parsed(t) == [p |-> t, d |-> t]

IsNa(cell) == cell.p = NaT

\* pd.to_datetime(series, errors="coerce")
ToDatetime(series) == [i \in 1..Len(series) |-> Parsed(series[i].p)]

\* pd.to_datetime(series, errors="coerce", dayfirst=True)
ToDatetimeDayfirst(series) == [i \in 1..Len(series) |-> Parsed(series[i].d)]

\* series.notna().sum()
NotNaCount(series) == Cardinality({i \in 1..Len(series) : ~IsNa(series[i])})

\* the calendar of the model: .dt.date, .dt.isocalendar().week,
\* .dt.to_period("M") and .dt.year of a day number, with weeks of two days,
\* months of two weeks and years of two months
DayOf(t) == t

WeekOf(t) == (((t - 1) \div 2) % 4) + 1

MonthOf(t) == ((t - 1) \div 4) + 1

YearOf(t) == ((t - 1) \div 8) + 1

-----------------------------------------------------------------------------
(* Data frames: the ordered column names, the index labels of the rows and, *)
(* per column, the cells in row order                                       *)

NoFrame == [columns |-> <<>>, index |-> <<>>, data |-> [c \in {} |-> <<>>]]

Frame(columns, index, data) == [columns |-> columns, index |-> index, data |-> data]

\* len(df)
FrameLen(f) == Len(f.index)

HasCol(f, c) == c \in Range(f.columns)

\* df[c] = series: an existing column is overwritten in place, a new one is
\* added at the end
SetCol(f, c, series) ==
    [columns |-> IF HasCol(f, c) THEN f.columns ELSE Append(f.columns, c),
     index   |-> f.index,
     data    |-> [x \in Range(f.columns) \cup {c} |-> IF x = c THEN series ELSE f.data[x]]]

\* a series holding the same value on every row (df[c] = scalar)
Constant(f, v) == [i \in 1..FrameLen(f) |-> v]

\* df.get(c) for a date column, then pd.to_datetime: a missing column gives
\* None, to_datetime(None) is None, and assigning None fills the column with it
GetDate(f, c) == IF HasCol(f, c) THEN f.data[c] ELSE Constant(f, Parsed(NaT))

\* the positions 1..n whose cell satisfies Keep, in order
Positions(series, Keep(_)) ==
    SelectSeq([i \in 1..Len(series) |-> i], LAMBDA i : Keep(series[i]))

\* df[mask]: the rows at the given positions, with their index labels
TakeRows(f, pos) ==
    [columns |-> f.columns,
     index   |-> [i \in 1..Len(pos) |-> f.index[pos[i]]],
     data    |-> [c \in Range(f.columns) |-> [i \in 1..Len(pos) |-> f.data[c][pos[i]]]]]

\* df.columns = df.columns.str.strip()
StripColumns(f) ==
    [columns |-> [i \in 1..Len(f.columns) |-> Strip(f.columns[i])],
     index   |-> f.index,
     data    |-> [c \in {Strip(x) : x \in Range(f.columns)} |->
                    f.data[f.columns[Max({i \in 1..Len(f.columns) : Strip(f.columns[i]) = c})]]]]

-----------------------------------------------------------------------------
(* Aggregation: groupby(key).size().reset_index(name=...), sort_values *)

\* the order of characters (code points) among those the model uses
CharOrder ==
    <<"\t", "\n", " ", "(", ")", "+", ",", "-", ".">> \o Digits \o <<":">>
    \o UpperChars \o <<"_">> \o LowerChars

CharCode(c) == CHOOSE i \in 1..Len(CharOrder) : CharOrder[i] = c

\* a < b on texts
RECURSIVE TextLess(_, _)
TextLess(a, b) ==
    IF b = <<>> THEN FALSE
    ELSE IF a = <<>> THEN TRUE
    ELSE IF Head(a) = Head(b) THEN TextLess(Tail(a), Tail(b))
    ELSE CharCode(Head(a)) < CharCode(Head(b))

RECURSIVE SortInts(_)
SortInts(S) ==
    IF S = {} THEN <<>>
    ELSE LET m == CHOOSE x \in S : \A y \in S : x <= y
         IN  <<m>> \o SortInts(S \ {m})

RECURSIVE SortTexts(_)
SortTexts(S) ==
    IF S = {} THEN <<>>
    ELSE LET m == CHOOSE x \in S : \A y \in S \ {x} : TextLess(x, y)
         IN  <<m>> \o SortTexts(S \ {m})

\* the size of each group, for group keys already in their sorted order
SizeTable(keys, sorted) ==
    [g \in 1..Len(sorted) |->
        [key |-> sorted[g],
         Incidents |-> Cardinality({i \in 1..Len(keys) : keys[i] = sorted[g]})]]

\* the keys in the order they are first met
RECURSIVE FirstSeenOrder(_)
FirstSeenOrder(keys) ==
    IF keys = <<>> THEN <<>>
    ELSE <<Head(keys)>> \o FirstSeenOrder(SelectSeq(Tail(keys), LAMBDA x : x # Head(keys)))

\* a variant of the grouping that keeps the keys as met (sort=False)
GroupSizeIntsUnsorted(keys) == SizeTable(keys, FirstSeenOrder(keys))

\* groupby(<date feature>).size(): one row per key, keys ascending
GroupSizeInts(keys) == SizeTable(keys, SortInts(Range(keys)))

\* groupby(<text column>).size(): one row per key, keys ascending; rows whose
\* key is null are left out (dropna=True)
GroupSizeTexts(keys) == SizeTable(keys, SortTexts(Range(keys) \ {Null}))

\* sort_values("Incidents", ascending=False): rows of equal count keep the
\* order they had
RECURSIVE SortByIncidentsDesc(_)
SortByIncidentsDesc(t) ==
    IF t = <<>> THEN <<>>
    ELSE LET top == Max({t[i].Incidents : i \in 1..Len(t)})
             i0  == Min({i \in 1..Len(t) : t[i].Incidents = top})
         IN  <<t[i0]>> \o SortByIncidentsDesc(SubSeq(t, 1, i0 - 1) \o SubSeq(t, i0 + 1, Len(t)))

\* a variant of head that keeps every row
HeadRowsAll(t, n) == t

\* table.head(n)
HeadRows(t, n) == SubSeq(t, 1, IF Len(t) < n THEN Len(t) ELSE n)

NoAggs ==
    [monthly_crime |-> <<>>, weekly_crime |-> <<>>, daily_crime |-> <<>>,
     top_areas |-> <<>>, top_crimes |-> <<>>,
     area_counts |-> <<>>, daily_trends |-> <<>>]

-----------------------------------------------------------------------------
(* The output files of Q4.py, under OUTPUT_DIR *)

ChartFiles == {"q4_top_areas.png", "q4_monthly_trend.png"}

CsvFiles ==
    {"q4_top_areas.csv", "q4_top_crimes.csv", "q4_monthly_crime.csv", "q4_daily_crime.csv"}

-----------------------------------------------------------------------------
(* Q4.py, section by section *)

\* the script ends by an uncaught exception
Raise ==
    /\ pc' = "raised"
    /\ UNCHANGED <<script, db, conn, acquired, df, loaded_len, df_time, aggs, files, shown, cols_lower, call,
                   fallback, plotted, area_col, crime_col, fallback_date>>

\* section 1, lines 38-43: the handler prints and re-raises
Q4_Connect ==
    /\ script = "Q4" /\ pc = "connect"
    /\ \E ok \in BOOLEAN :
          IF ok
          THEN /\ conn' = "open"
               /\ acquired' = acquired + 1
               /\ pc' = "load"
               /\ UNCHANGED <<script, db, df, loaded_len, df_time, aggs, files, shown, cols_lower, call,
                              fallback, plotted, area_col, crime_col, fallback_date>>
          ELSE Raise

\* section 2, lines 48-53: the handler prints and re-raises
Q4_Load ==
    /\ script = "Q4" /\ pc = "load"
    /\ \E ok \in BOOLEAN :
          IF ok
          THEN /\ df' = db
               /\ loaded_len' = FrameLen(db)
               /\ pc' = "normalize"
               /\ UNCHANGED <<script, db, conn, acquired, df_time, aggs, files, shown, cols_lower, call,
                              fallback, plotted, area_col, crime_col, fallback_date>>
          ELSE Raise

\* section 3, lines 58-60
Q4_Normalize ==
    /\ script = "Q4" /\ pc = "normalize"
    /\ df' = StripColumns(df)
    /\ pc' = "parse_dates"
    /\ UNCHANGED <<script, db, conn, acquired, loaded_len, df_time, aggs, files, shown, cols_lower, call,
                   fallback, plotted, area_col, crime_col, fallback_date>>

\* section 4, lines 68-73: both date columns are overwritten by their parse
Q4_ParseDates ==
    /\ script = "Q4" /\ pc = "parse_dates"
    /\ df' = SetCol(SetCol(df, N_Date_Rptd, ToDatetime(GetDate(df, N_Date_Rptd))),
                    N_DATE_OCC, ToDatetime(GetDate(df, N_DATE_OCC)))
    /\ pc' = "dayfirst"
    /\ UNCHANGED <<script, db, conn, acquired, loaded_len, df_time, aggs, files, shown, cols_lower, call,
                   fallback, plotted, area_col, crime_col, fallback_date>>

\* line 76: max(1, int(len(df) * 0.2))
FallbackThreshold(n) == IF (n * 2) \div 10 > 1 THEN (n * 2) \div 10 ELSE 1

\* line 76: the day-first retry is attempted
FallbackTried(f) == NotNaCount(f.data[N_DATE_OCC]) < FallbackThreshold(FrameLen(f))

\* line 78: the retry parses df.get("DATE_OCC"), the column line 69 has
\* already overwritten with its parsed values
DayfirstRetry(f) == ToDatetimeDayfirst(GetDate(f, N_DATE_OCC))

\* lines 76-82
Q4_DayfirstFallback ==
    /\ script = "Q4" /\ pc = "dayfirst"
    /\ df' = IF /\ FallbackTried(df)
                /\ NotNaCount(DayfirstRetry(df)) > NotNaCount(df.data[N_DATE_OCC])
             THEN SetCol(df, N_DATE_OCC, DayfirstRetry(df))
             ELSE df
    /\ pc' = "parse_time"
    /\ fallback' = IF FallbackTried(df)
                   THEN [bound |-> TRUE, values |-> DayfirstRetry(df)]
                   ELSE fallback
    /\ UNCHANGED <<script, db, conn, acquired, loaded_len, df_time, aggs, files, shown, cols_lower, call,
                   plotted, area_col, crime_col, fallback_date>>

\* section 5, line 104: df.get("TIME_OCC") is None when the column is missing,
\* and None.apply raises AttributeError
Q4_ParseTime ==
    /\ script = "Q4" /\ pc = "parse_time"
    /\ IF HasCol(df, N_TIME_OCC)
       THEN /\ df' = SetCol(df, N_TIME_OCC_parsed,
                            [i \in 1..FrameLen(df) |-> fix_time(df.data[N_TIME_OCC][i])])
            /\ pc' = "extract_coords"
            /\ UNCHANGED <<script, db, conn, acquired, loaded_len, df_time, aggs, files,
                           shown, cols_lower, call,
                           fallback, plotted, area_col, crime_col, fallback_date>>
       ELSE Raise

\* line 125: df.get("LOCATION", pd.Series([np.nan]*len(df))).apply(extract_coord)
Coords(f) ==
    [i \in 1..FrameLen(f) |->
        extract_coord(IF HasCol(f, N_LOCATION) THEN f.data[N_LOCATION][i] ELSE Null)]

\* a variant that takes the longitude only from pairs in the eastern hemisphere
CoordPartEast(coords, k) ==
    [i \in 1..Len(coords) |->
        IF coords[i] = NoCoord \/ (k = 2 /\ coords[i][2].neg) THEN <<>> ELSE <<coords[i][k]>>]

\* lines 126-127: one coordinate of each pair; a float is <<x>>, NaN is <<>>
CoordPart(coords, k) ==
    [i \in 1..Len(coords) |-> IF coords[i] = NoCoord THEN <<>> ELSE <<coords[i][k]>>]

\* section 6, lines 125-128
Q4_ExtractCoords ==
    /\ script = "Q4" /\ pc = "extract_coords"
    /\ df' = SetCol(SetCol(df, N_Lat, CoordPart(Coords(df), 1)),
                    N_Lon, CoordPart(Coords(df), 2))
    /\ pc' = "alias"
    /\ UNCHANGED <<script, db, conn, acquired, loaded_len, df_time, aggs, files, shown, cols_lower, call,
                   fallback, plotted, area_col, crime_col, fallback_date>>

\* str(None)
NoneText == <<"N","o","n","e">>

\* df[col].astype(str).fillna("Unknown"): astype(str) turns a null into the
\* text of its name, so fillna finds nothing left to fill
AsStrFillna(series) ==
    [i \in 1..Len(series) |->
        LET str == IF series[i] = Null THEN NoneText ELSE series[i]
        IN  IF str = Null THEN Unknown ELSE str]

\* lines 149-153 / 156-160: the alias column of a role
AliasColumn(f, candidates) ==
    IF find_col(f.columns, candidates) # NoCol
    THEN AsStrFillna(f.data[find_col(f.columns, candidates)])
    ELSE Constant(f, Unknown)

\* section 7, lines 134-160: cols_lower is built once, from the columns df has
\* at line 134, and both roles are resolved against it
Q4_Alias ==
    /\ script = "Q4" /\ pc = "alias"
    /\ cols_lower' = df.columns
    /\ area_col' = find_col(df.columns, AreaCandidates)
    /\ crime_col' = find_col(df.columns, CrimeCandidates)
    /\ df' = SetCol(SetCol(df, N_AREA_NAME_alias, AliasColumn(df, AreaCandidates)),
                    N_Crm_Cd_Desc_alias, AliasColumn(df, CrimeCandidates))
    /\ pc' = "date_column"
    /\ UNCHANGED <<script, db, conn, acquired, loaded_len, df_time, aggs, files, shown, call,
                   fallback, plotted, fallback_date>>

\* a variant of the line 163 test that fires on any missing value
DateColumnAnyMissing(f) ==
    \/ ~HasCol(f, N_DATE_OCC)
    \/ \E i \in 1..FrameLen(f) : IsNa(f.data[N_DATE_OCC][i])

\* line 163: "DATE_OCC" not in df.columns or df["DATE_OCC"].isna().all()
DateColumnMissing(f) ==
    \/ ~HasCol(f, N_DATE_OCC)
    \/ \A i \in 1..FrameLen(f) : IsNa(f.data[N_DATE_OCC][i])

\* lines 163-170: another date column is parsed into DATE_OCC
Q4_DateColumn ==
    /\ script = "Q4" /\ pc = "date_column"
    /\ df' = IF DateColumnMissing(df) /\ find_col(cols_lower, DateCandidates) # NoCol
             THEN SetCol(df, N_DATE_OCC,
                         ToDatetime(df.data[find_col(cols_lower, DateCandidates)]))
             ELSE df
    /\ pc' = "filter"
    /\ fallback_date' = IF DateColumnMissing(df)
                        THEN find_col(cols_lower, DateCandidates)
                        ELSE fallback_date
    /\ UNCHANGED <<script, db, conn, acquired, loaded_len, df_time, aggs, files, shown,
                   cols_lower, call,
                   fallback, plotted, area_col, crime_col>>

\* section 8, lines 176-184: the guard only prints; df_time is a copy of the
\* rows of df that have a DATE_OCC
Q4_Filter ==
    /\ script = "Q4" /\ pc = "filter"
    /\ df_time' = TakeRows(df, Positions(df.data[N_DATE_OCC], LAMBDA c : ~IsNa(c)))
    /\ pc' = "time_features"
    /\ UNCHANGED <<script, db, conn, acquired, df, loaded_len, aggs, files, shown,
                   cols_lower, call,
                   fallback, plotted, area_col, crime_col, fallback_date>>

\* a date feature of every row of the frame
Feature(f, Of(_)) == [i \in 1..FrameLen(f) |-> Of(f.data[N_DATE_OCC][i].p)]

\* section 9, lines 189-203
Q4_TimeFeatures ==
    /\ script = "Q4" /\ pc = "time_features"
    /\ IF FrameLen(df_time) > 0
       THEN /\ df_time' =
                 SetCol(SetCol(SetCol(SetCol(df_time,
                     <<"D","a","y">>, Feature(df_time, DayOf)),
                     <<"W","e","e","k">>, Feature(df_time, WeekOf)),
                     <<"M","o","n","t","h">>, Feature(df_time, MonthOf)),
                     <<"Y","e","a","r">>, Feature(df_time, YearOf))
            /\ aggs' = [aggs EXCEPT
                          !.monthly_crime = GroupSizeInts(Feature(df_time, MonthOf)),
                          !.weekly_crime  = GroupSizeInts(Feature(df_time, WeekOf)),
                          !.daily_crime   = GroupSizeInts(Feature(df_time, DayOf))]
       ELSE /\ df_time' = df_time
            /\ aggs' = [aggs EXCEPT !.monthly_crime = <<>>, !.weekly_crime = <<>>,
                                    !.daily_crime = <<>>]
    /\ pc' = "top"
    /\ UNCHANGED <<script, db, conn, acquired, df, loaded_len, files, shown, cols_lower, call,
                   fallback, plotted, area_col, crime_col, fallback_date>>

\* section 10, lines 208-214
Q4_Top ==
    /\ script = "Q4" /\ pc = "top"
    /\ aggs' = [aggs EXCEPT
                  !.top_areas =
                      SortByIncidentsDesc(GroupSizeTexts(df_time.data[N_AREA_NAME_alias])),
                  !.top_crimes =
                      SortByIncidentsDesc(GroupSizeTexts(df_time.data[N_Crm_Cd_Desc_alias]))]
    /\ pc' = "plot_areas"
    /\ UNCHANGED <<script, db, conn, acquired, df, loaded_len, df_time, files, shown,
                   cols_lower, call,
                   fallback, plotted, area_col, crime_col, fallback_date>>

\* section 11, lines 220-232
Q4_PlotAreas ==
    /\ script = "Q4" /\ pc = "plot_areas"
    /\ files' = IF aggs.top_areas # <<>> THEN files \cup {"q4_top_areas.png"} ELSE files
    /\ pc' = "plot_monthly"
    /\ plotted' = IF aggs.top_areas # <<>>
                  THEN [plotted EXCEPT !.top_areas = HeadRows(aggs.top_areas, 10)]
                  ELSE plotted
    /\ UNCHANGED <<script, db, conn, acquired, df, loaded_len, df_time, aggs, shown,
                   cols_lower, call,
                   fallback, area_col, crime_col, fallback_date>>

\* section 11, lines 235-251
Q4_PlotMonthly ==
    /\ script = "Q4" /\ pc = "plot_monthly"
    /\ files' = IF aggs.monthly_crime # <<>> THEN files \cup {"q4_monthly_trend.png"}
                ELSE files
    /\ pc' = "export"
    /\ plotted' = IF aggs.monthly_crime # <<>>
                  THEN [plotted EXCEPT !.monthly_crime = aggs.monthly_crime]
                  ELSE plotted
    /\ UNCHANGED <<script, db, conn, acquired, df, loaded_len, df_time, aggs, shown,
                   cols_lower, call,
                   fallback, area_col, crime_col, fallback_date>>

\* section 12, lines 256-260: the four tables are written whatever they hold
Q4_Export ==
    /\ script = "Q4" /\ pc = "export"
    /\ files' = files \cup CsvFiles
    /\ pc' = "close"
    /\ UNCHANGED <<script, db, conn, acquired, df, loaded_len, df_time, aggs, shown,
                   cols_lower, call,
                   fallback, plotted, area_col, crime_col, fallback_date>>

\* section 13 and the end, lines 265-278: the summary is printed, conn.close()
Q4_Close ==
    /\ script = "Q4" /\ pc = "close"
    /\ conn' = "closed"
    /\ pc' = "done"
    /\ UNCHANGED <<script, db, acquired, df, loaded_len, df_time, aggs, files, shown,
                   cols_lower, call,
                   fallback, plotted, area_col, crime_col, fallback_date>>

-----------------------------------------------------------------------------
(* All.py: the connection, the four other projects, then the crime section *)

\* lines 22-32: the handler prints and goes on; conn stays unbound
All_Connect ==
    /\ script = "All" /\ pc = "connect"
    /\ \E ok \in BOOLEAN :
          /\ conn' = IF ok THEN "open" ELSE conn
          /\ acquired' = IF ok THEN acquired + 1 ELSE acquired
    /\ pc' = "q1"
    /\ UNCHANGED <<script, db, df, loaded_len, df_time, aggs, files, shown, cols_lower, call,
                   fallback, plotted, area_col, crime_col, fallback_date>>

AllNextSection(p) ==
    CASE p = "q1" -> "q2" [] p = "q2" -> "q3" [] p = "q3" -> "q4" [] p = "q4" -> "load"

\* the figures a section hands to plt.show(): lines 75; 104; 137; 160 and 168
AllFigures(p) ==
    CASE p = "q1" -> {"Monthly Sales Trend"}
      [] p = "q2" -> {"Customer Churn Distribution"}
      [] p = "q3" -> {"Director vs Audience Rating"}
      [] p = "q4" -> {"Correlation Heatmap", "Age vs Heart Disease Severity"}

\* lines 37-168: each of the four sections loads its own table through conn,
\* with no handler: an unbound conn is a NameError, a failing query or a
\* missing column ends the run
All_Section ==
    /\ script = "All" /\ pc \in {"q1", "q2", "q3", "q4"}
    /\ IF conn = "unbound"
       THEN Raise
       ELSE \E ok \in BOOLEAN :
               IF ok
               THEN /\ shown' = shown \cup AllFigures(pc)
                    /\ pc' = AllNextSection(pc)
                    /\ UNCHANGED <<script, db, conn, acquired, df, loaded_len, df_time,
                                   aggs, files, cols_lower, call,
                                   fallback, plotted, area_col, crime_col, fallback_date>>
               ELSE Raise

\* lines 175-176
All_Load ==
    /\ script = "All" /\ pc = "load"
    /\ \E ok \in BOOLEAN :
          IF ok
          THEN /\ df' = StripColumns(db)
               /\ loaded_len' = FrameLen(db)
               /\ pc' = "parse_dates"
               /\ UNCHANGED <<script, db, conn, acquired, df_time, aggs, files, shown,
                              cols_lower, call,
                              fallback, plotted, area_col, crime_col, fallback_date>>
          ELSE Raise

\* lines 179-180: df_q5 is replaced by its rows that have a DATE_OCC; a missing
\* column is a KeyError
All_ParseDates ==
    /\ script = "All" /\ pc = "parse_dates"
    /\ IF HasCol(df, N_DATE_OCC)
       THEN /\ df' = LET parsed == SetCol(df, N_DATE_OCC, ToDatetime(df.data[N_DATE_OCC]))
                     IN  TakeRows(parsed,
                                  Positions(parsed.data[N_DATE_OCC], LAMBDA c : ~IsNa(c)))
            /\ pc' = "area_counts"
            /\ UNCHANGED <<script, db, conn, acquired, loaded_len, df_time, aggs, files,
                           shown, cols_lower, call,
                           fallback, plotted, area_col, crime_col, fallback_date>>
       ELSE Raise

\* lines 183-186
All_AreaCounts ==
    /\ script = "All" /\ pc = "area_counts"
    /\ IF HasCol(df, N_AREA_NAME)
       THEN /\ aggs' = [aggs EXCEPT !.area_counts =
                          SortByIncidentsDesc(GroupSizeTexts(df.data[N_AREA_NAME]))]
            /\ pc' = "daily"
            /\ UNCHANGED <<script, db, conn, acquired, df, loaded_len, df_time, files,
                           shown, cols_lower, call,
                           fallback, plotted, area_col, crime_col, fallback_date>>
       ELSE Raise

\* lines 189-198: the daily trend is shown, not saved; the script ends here
\* and never closes conn
All_Daily ==
    /\ script = "All" /\ pc = "daily"
    /\ df' = SetCol(df, N_Date, Feature(df, DayOf))
    /\ aggs' = [aggs EXCEPT !.daily_trends = GroupSizeInts(Feature(df, DayOf))]
    /\ shown' = shown \cup {"Daily Crime Trend"}
    /\ pc' = "done"
    /\ UNCHANGED <<script, db, conn, acquired, loaded_len, df_time, files, cols_lower, call,
                   fallback, plotted, area_col, crime_col, fallback_date>>

-----------------------------------------------------------------------------
(* The tables the database may hold *)

\* the columns of q5_data the scripts read, in the table's order
FullColumns ==
    <<N_Date_Rptd, N_DATE_OCC, N_TIME_OCC, N_AREA_NAME, N_Crm_Cd_Desc, N_LOCATION>>

Without(cols, names) == SelectSeq(cols, LAMBDA c : c \notin names)

\* the same columns with blanks around their names
Padded(cols) == [i \in 1..Len(cols) |-> <<" ">> \o cols[i] \o <<" ">>]

\* tables that have every column Q4.py cannot do without
ColumnVariants ==
    { FullColumns,
      Padded(FullColumns),
      Without(FullColumns, {N_Date_Rptd, N_AREA_NAME}) }

\* tables that lack a column the scripts read
MissingColumnVariants ==
    { Without(FullColumns, {N_TIME_OCC}),
      Without(FullColumns, {N_DATE_OCC}),
      Without(FullColumns, {N_LOCATION}),
      Without(FullColumns, {N_AREA_NAME, N_Crm_Cd_Desc}) }

\* raw DATE_OCC cells: junk, an ISO date, a day-first date the default policy
\* rejects, and a slashed date the two policies read differently
OccCells == {RawDate(NaT, NaT), RawDate(1, 1), RawDate(NaT, 6), RawDate(2, 5)}

\* raw Date_Rptd cells
RptdCells == {RawDate(NaT, NaT), RawDate(3, 3)}

\* the cells of the other columns, by row
OtherCell(c, i) ==
    CASE c = N_TIME_OCC    -> IF i % 2 = 1 THEN <<"6","3","5">> ELSE <<"2","4","0","0">>
      [] c = N_AREA_NAME   -> IF i % 2 = 1 THEN <<"N","o","r","t","h">> ELSE Null
      [] c = N_Crm_Cd_Desc -> <<"T","H","E","F","T">>
      [] c = N_LOCATION    -> IF i % 2 = 1
                              THEN <<"3","4",".","0","5",","," ","-","1","1","8",".","2">>
                              ELSE <<"1"," ","M","A","I","N"," ","S","T">>
      [] OTHER             -> Null

\* the tables of n rows with the given columns, DATE_OCC cells and Date_Rptd cells
TablesOf(cols, n, occCells, rptdCells) ==
    { Frame(cols, [i \in 1..n |-> i],
            [c \in Range(cols) |->
                IF Strip(c) = N_DATE_OCC THEN occ
                ELSE IF Strip(c) = N_Date_Rptd THEN rptd
                ELSE [i \in 1..n |-> OtherCell(Strip(c), i)]]) :
        occ \in [1..n -> occCells], rptd \in [1..n -> rptdCells] }

DriverTables ==
    UNION {TablesOf(cols, n, OccCells, RptdCells) : cols \in ColumnVariants, n \in 0..MaxRows}

MissingColumnTables ==
    UNION {TablesOf(cols, n, OccCells, RptdCells) :
              cols \in MissingColumnVariants, n \in 0..MaxRows}

\* the junk cells of a column are its first rows or its last rows
JunkInBlock(col) ==
    \E j \in 0..Len(col) :
        \/ \A i \in 1..Len(col) : (col[i].p = NaT) <=> (i <= j)
        \/ \A i \in 1..Len(col) : (col[i].p = NaT) <=> (i > Len(col) - j)

\* longer tables whose DATE_OCC cells are junk, in a block of rows at either
\* end, or a date the two policies read differently
DateTables ==
    { t \in UNION {TablesOf(FullColumns, n, {RawDate(NaT, NaT), RawDate(2, 5)},
                            {RawDate(3, 3)}) : n \in 0..MaxDateRows} :
        JunkInBlock(t.data[N_DATE_OCC]) }

\* area names in an order that is not the alphabetical one
AreaCells == {<<"N","o","r","t","h">>, <<"C","e","n","t","r","a","l">>}

\* raw DATE_OCC cells of two different days, weeks and months, and junk
BucketCells == {RawDate(NaT, NaT), RawDate(1, 1), RawDate(6, 6)}

\* tables with every column whose rows vary in DATE_OCC and AREA_NAME
AggregateTables ==
    UNION { { Frame(FullColumns, [i \in 1..n |-> i],
                    [c \in Range(FullColumns) |->
                        IF c = N_DATE_OCC THEN occ
                        ELSE IF c = N_AREA_NAME THEN area
                        ELSE IF c = N_Date_Rptd THEN [i \in 1..n |-> RawDate(3, 3)]
                        ELSE [i \in 1..n |-> OtherCell(c, i)]]) :
                occ \in [1..n -> BucketCells], area \in [1..n -> AreaCells] } :
            n \in 0..MaxAggRows }

\* the k-th area name of the chart tables
ChartArea(k) == <<"A", "r", "e", "a", " ", UpperChars[k]>>

\* tables of n rows over k areas in rotation, whose dates all parse or all fail
ChartTables ==
    { Frame(FullColumns, [i \in 1..n |-> i],
            [c \in Range(FullColumns) |->
                IF c \in {N_DATE_OCC, N_Date_Rptd} THEN [i \in 1..n |-> date]
                ELSE IF c = N_AREA_NAME THEN [i \in 1..n |-> ChartArea(((i - 1) % k) + 1)]
                ELSE [i \in 1..n |-> OtherCell(c, i)]]) :
        n \in 0..MaxChartRows, k \in 1..MaxChartAreas,
        date \in {RawDate(NaT, NaT), RawDate(1, 1)} }

-----------------------------------------------------------------------------
(* The runs *)

NoCall == [fn |-> "none", args |-> <<>>, ret |-> <<>>]

\* a name of the script that no statement has assigned yet
Unbound == <<"<unbound>">>

\* the name fallback before line 78 assigns it
NoFallback == [bound |-> FALSE, values |-> <<>>]

\* nothing handed to a chart yet
NoPlots == [top_areas |-> <<>>, monthly_crime |-> <<>>]

InitOver(scripts, tables) ==
    /\ script \in scripts
    /\ pc = "connect"
    /\ db \in tables
    /\ conn = "unbound"
    /\ acquired = 0
    /\ df = NoFrame
    /\ loaded_len = 0
    /\ df_time = NoFrame
    /\ aggs = NoAggs
    /\ files = {}
    /\ shown = {}
    /\ cols_lower = <<>>
    /\ call = NoCall
    /\ fallback = NoFallback
    /\ plotted = NoPlots
    /\ area_col = Unbound
    /\ crime_col = Unbound
    /\ fallback_date = Unbound

Init == InitOver({"Q4", "All"}, DriverTables)

NextQ4 ==
    \/ Q4_Connect
    \/ Q4_Load
    \/ Q4_Normalize
    \/ Q4_ParseDates
    \/ Q4_DayfirstFallback
    \/ Q4_ParseTime
    \/ Q4_ExtractCoords
    \/ Q4_Alias
    \/ Q4_DateColumn
    \/ Q4_Filter
    \/ Q4_TimeFeatures
    \/ Q4_Top
    \/ Q4_PlotAreas
    \/ Q4_PlotMonthly
    \/ Q4_Export
    \/ Q4_Close

NextAll ==
    \/ All_Connect
    \/ All_Section
    \/ All_Load
    \/ All_ParseDates
    \/ All_AreaCounts
    \/ All_Daily

Next == NextQ4 \/ NextAll

\* either script over the short tables with varying columns
Spec == Init /\ [][Next]_vars

InitColumns == InitOver({"Q4", "All"}, MissingColumnTables)

\* either script over the tables that lack a column
SpecColumns == InitColumns /\ [][Next]_vars

InitDates == InitOver({"Q4"}, DateTables)

\* Q4.py over the longer tables
SpecDates == InitDates /\ [][NextQ4]_vars

InitAggregates == InitOver({"Q4", "All"}, AggregateTables)

\* either script over the tables that vary in DATE_OCC and AREA_NAME
SpecAggregates == InitAggregates /\ [][Next]_vars

InitCharts == InitOver({"Q4"}, ChartTables)

\* Q4.py over the tables of many areas
SpecCharts == InitCharts /\ [][NextQ4]_vars

-----------------------------------------------------------------------------
(* The helpers of Q4.py called on their own *)

InitCall(calls) ==
    /\ script = "lib"
    /\ pc = "call"
    /\ db = NoFrame
    /\ conn = "unbound"
    /\ acquired = 0
    /\ df = NoFrame
    /\ loaded_len = 0
    /\ df_time = NoFrame
    /\ aggs = NoAggs
    /\ files = {}
    /\ shown = {}
    /\ cols_lower = <<>>
    /\ call \in calls
    /\ fallback = NoFallback
    /\ plotted = NoPlots
    /\ area_col = Unbound
    /\ crime_col = Unbound
    /\ fallback_date = Unbound

Return(value) ==
    /\ call' = [call EXCEPT !.ret = value]
    /\ pc' = "return"
    /\ UNCHANGED <<script, db, conn, acquired, df, loaded_len, df_time, aggs, files, shown,
                   cols_lower,
                   fallback, plotted, area_col, crime_col, fallback_date>>

\* column names and candidates over two letters and their capitals
SmallColumnNames ==
    { <<"a">>, <<"A">>, <<"b">>, <<"a","b">>, <<"A","b">>, <<"b","a">>, <<"a","a">>,
      <<"b","b">>, <<"B","a","b">> }

SmallCandidates == { <<"a">>, <<"b">>, <<"A","B">>, <<"b","a">> }

\* a table's column names differ even when case is ignored
DistinctLower(cols) ==
    \A i, j \in 1..Len(cols) : Lower(cols[i]) = Lower(cols[j]) => i = j

ExampleColumns ==
    << <<"A","r","e","a">>, <<"b","e","a","t","_","n","u","m","b","e","r">> >>

ExampleCandidates == << Lower(N_AREA_NAME), <<"a","r","e","a">>, <<"b","e","a","t">> >>

FindColCalls ==
    { [fn |-> "find_col", args |-> <<cols, names>>, ret |-> NoCol] :
        cols  \in {c \in SeqsUpTo(SmallColumnNames, MaxCols) : DistinctLower(c)},
        names \in SeqsUpTo(SmallCandidates, MaxCands) }
    \cup { [fn |-> "find_col", args |-> <<ExampleColumns, ExampleCandidates>>, ret |-> NoCol],
           [fn |-> "find_col", args |-> <<FullColumns, AreaCandidates>>, ret |-> NoCol],
           [fn |-> "find_col", args |-> <<Without(FullColumns, {N_AREA_NAME}), AreaCandidates>>,
            ret |-> NoCol] }

FindColCall ==
    /\ pc = "call" /\ call.fn = "find_col"
    /\ Return(find_col(call.args[1], call.args[2]))

SpecFindCol == InitCall(FindColCalls) /\ [][FindColCall]_vars

TimeAlphabet == {"0", "1", "2", "3", "5", "6", ":"}

ExampleTimes ==
    { <<"6","3","5">>, <<"1">>, <<>>, <<"2","3","5","9">>, <<"2","4","0","0">>,
      <<"0","9","6","0">>, <<" ","9",":","0","5"," ">>, <<"6","3","5",".","0">>,
      <<"1","4","3","0">>, <<"1","2","3","4","5","6">>, <<"n","a","n">> }

FixTimeCalls ==
    { [fn |-> "fix_time", args |-> <<x>>, ret |-> NoTime] :
        x \in SeqsUpTo(TimeAlphabet, MaxTimeLen) \cup ExampleTimes \cup {Null} }

FixTimeCall ==
    /\ pc = "call" /\ call.fn = "fix_time"
    /\ Return(fix_time(call.args[1]))

SpecFixTime == InitCall(FixTimeCalls) /\ [][FixTimeCall]_vars

CoordAlphabet == {"1", ".", ",", "-", "\t"}

ExampleTexts ==
    { <<"(","3","4",".","0","5","2","2",","," ","-","1","1","8",".","2","4","3","7",")">>,
      <<"1","2","3","4"," ","M","a","i","n"," ","S","t",","," ","L","A">>,
      <<"3","4",".","0","5"," ","-","1","1","8",".","2","4">>,
      <<"(","3","4",".","0","5",","," ","\n","-","5","1","8",".","2","4",")">>,
      <<"1","2","3","4",".","5",","," ","6",".","7","0">>,
      <<"1",".","5",","," ","1","2","3","4",".","5">>,
      <<"+","9","1",".","5"," ",","," ","2","0","0",".","2","5",","," ","3",".","5">>,
      <<"3","4",".","0","5">> }

ExtractCoordCalls ==
    { [fn |-> "extract_coord", args |-> <<t>>, ret |-> NoCoord] :
        t \in SeqsUpTo(CoordAlphabet, MaxTextLen) \cup ExampleTexts \cup {Null} }

ExtractCoordCall ==
    /\ pc = "call" /\ call.fn = "extract_coord"
    /\ Return(extract_coord(call.args[1]))

SpecExtractCoord == InitCall(ExtractCoordCalls) /\ [][ExtractCoordCall]_vars

-----------------------------------------------------------------------------
(* Properties of the runs *)

\* the load returned a table (every table has columns)
Loaded == df.columns # <<>>

Ended == pc \in {"done", "raised"}

\* the sections of Q4.py after the day-first retry
AfterDayfirst ==
    {"parse_time", "extract_coords", "alias", "date_column", "filter", "time_features",
     "top", "plot_areas", "plot_monthly", "export", "close", "done"}

\* the sections of Q4.py after the valid-timestamp filter
AfterFilter ==
    {"time_features", "top", "plot_areas", "plot_monthly", "export", "close", "done"}

\* a position at which an aggregation or a sink of either script has run
AfterAggregation ==
    {"top", "plot_areas", "plot_monthly", "export", "close", "daily", "done"}

DbHasOcc == \E c \in Range(db.columns) : Strip(c) = N_DATE_OCC

\* the raw DATE_OCC column of the table in the database
RawOcc == db.data[CHOOSE c \in Range(db.columns) : Strip(c) = N_DATE_OCC]

\* how many raw DATE_OCC values each policy parses
PrimaryCount == Cardinality({i \in 1..Len(RawOcc) : RawOcc[i].p # NaT})

DayfirstCount == Cardinality({i \in 1..Len(RawOcc) : RawOcc[i].d # NaT})

\* every DATE_OCC value of the table is unparseable, under either policy
AllOccUnparseable ==
    /\ DbHasOcc
    /\ Len(RawOcc) > 0
    /\ \A i \in 1..Len(RawOcc) : RawOcc[i].p = NaT /\ RawOcc[i].d = NaT

\* C1: when every DATE_OCC value of the loaded table is unparseable, Q4.py
\* writes no CSV export and no chart image, and does not end by raising.
C1_ZeroTimestampGuard ==
    (script = "Q4" /\ Loaded /\ AllOccUnparseable)
        => (files \cap (CsvFiles \cup ChartFiles) = {} /\ pc # "raised")

\* C2: when the load of Q4.py returns zero rows the run stops before any
\* aggregation and any sink, writes no file, and ends as a failure.
C2_EmptyResultFatal ==
    (script = "Q4" /\ Loaded /\ loaded_len = 0)
        => /\ pc \notin AfterAggregation
           /\ files = {}
           /\ aggs = NoAggs
           /\ Ended => pc = "raised"

\* C3: when the connection cannot be made the run has ended by raising at that
\* very step, and when the load of q5_data fails it ends by raising; in both
\* cases nothing is loaded, aggregated or written.
C3_SourceUnavailableFatal ==
    /\ (pc # "connect" /\ acquired = 0) => pc = "raised"
    /\ (Ended /\ ~Loaded) => (pc = "raised" /\ files = {} /\ aggs = NoAggs /\ df_time = NoFrame)

\* C4: a run that acquired the connection has closed it when it ends, however
\* it ends, and no run acquires it twice.
C4_ConnectionReleased ==
    /\ acquired <= 1
    /\ (Ended /\ acquired > 0) => conn = "closed"

\* C5: when the default policy parses fewer than 20% of the DATE_OCC values and
\* the day-first policy more than 20%, the DATE_OCC column every later section
\* of Q4.py works on holds the day-first results.
C5_FallbackAdopted ==
    (/\ script = "Q4" /\ pc \in AfterDayfirst /\ DbHasOcc
     /\ 5 * PrimaryCount < Len(RawOcc)
     /\ 5 * DayfirstCount > Len(RawOcc))
        => df.data[N_DATE_OCC] = ToDatetimeDayfirst(RawOcc)

\* C6 concerns tables whose DATE_OCC the default policy parses to at least 90%
GoodPrimary == DbHasOcc /\ 10 * PrimaryCount >= 9 * Len(RawOcc)

\* C6: when the default policy parses at least 90% of the DATE_OCC values, the
\* DATE_OCC column of df in every later section of Q4.py, and of df_time once
\* it is built, holds exactly the results of the default policy.
C6_GoodPrimaryKept ==
    (script = "Q4" /\ GoodPrimary)
        => /\ pc \in AfterDayfirst => df.data[N_DATE_OCC] = ToDatetime(RawOcc)
           /\ pc \in AfterFilter =>
                 df_time.data[N_DATE_OCC] = SelectSeq(ToDatetime(RawOcc), LAMBDA c : ~IsNa(c))

\* a run to the end over ten rows of which the default policy parses nine,
\* the day-first policy reads them as other days, and Date_Rptd differs too
C6_Witness ==
    /\ script = "Q4" /\ pc = "done" /\ GoodPrimary
    /\ Len(RawOcc) = 10 /\ PrimaryCount = 9
    /\ ToDatetimeDayfirst(RawOcc) # ToDatetime(RawOcc)
    /\ df.data[N_Date_Rptd] # df.data[N_DATE_OCC]
    /\ df.data[N_DATE_OCC] = ToDatetime(RawOcc)

-----------------------------------------------------------------------------
(* Properties of find_col *)

Returned(fn) == pc = "return" /\ call.fn = fn

\* the candidates, by position, that equal some column when case is ignored
ExactCandidates(cols, names) ==
    {j \in 1..Len(names) : \E i \in 1..Len(cols) : Lower(cols[i]) = Lower(names[j])}

\* the candidates, by position, that some column contains when case is ignored
ContainedCandidates(cols, names) ==
    {j \in 1..Len(names) : \E i \in 1..Len(cols) : Contains(Lower(names[j]), Lower(cols[i]))}

\* the column the stated tie-break picks: the first column, in table order,
\* that contains the earliest candidate contained in any column
PriorityChoice(cols, names) ==
    IF ContainedCandidates(cols, names) = {} THEN NoCol
    ELSE LET j == Min(ContainedCandidates(cols, names))
         IN  cols[Min({i \in 1..Len(cols) : Contains(Lower(names[j]), Lower(cols[i]))})]

\* C7: when no candidate equals a column, find_col returns the first column in
\* table order that contains the earliest candidate contained in any column.
C7_SubstringPriority ==
    (Returned("find_col") /\ ExactCandidates(call.args[1], call.args[2]) = {})
        => call.ret = PriorityChoice(call.args[1], call.args[2])

\* C8: find_col returns None or the name, as written, of a column present; when
\* some candidate equals a column with case ignored, the result equals the
\* earliest such candidate with case ignored; [Area, beat_number] with
\* [area_name, area, beat] gives Area.
C8_ExactPrecedence ==
    Returned("find_col") =>
        LET cols  == call.args[1]
            names == call.args[2]
        IN  /\ call.ret = NoCol \/ call.ret \in Range(cols)
            /\ ExactCandidates(cols, names) # {} =>
                  /\ call.ret # NoCol
                  /\ Lower(call.ret) = Lower(names[Min(ExactCandidates(cols, names))])
            /\ (cols = ExampleColumns /\ names = ExampleCandidates) =>
                  call.ret = <<"A","r","e","a">>

\* a call in which a column that only contains a candidate comes before the
\* column that equals it
C8_Witness ==
    /\ Returned("find_col")
    /\ ExactCandidates(call.args[1], call.args[2]) # {}
    /\ \E i \in 1..Len(call.args[1]) :
          /\ call.args[1][i] # call.ret
          /\ \A j \in 1..Len(call.args[2]) : Lower(call.args[1][i]) # Lower(call.args[2][j])
          /\ \E k \in (i + 1)..Len(call.args[1]) : call.args[1][k] = call.ret
          /\ \E j \in 1..Len(call.args[2]) :
                Contains(Lower(call.args[2][j]), Lower(call.args[1][i]))
    /\ Lower(call.ret) \in {Lower(call.args[2][j]) : j \in 1..Len(call.args[2])}

-----------------------------------------------------------------------------
(* Properties of fix_time *)

\* the digits of a text, in order
DigitsOf(x) == SelectSeq(x, IsDigit)

\* the digits with zeros in front up to four characters
PaddedTo4(d) ==
    IF Len(d) >= 4 THEN d
    ELSE [i \in 1..4 |-> IF i <= 4 - Len(d) THEN "0" ELSE d[i - (4 - Len(d))]]

\* the time of day the stated rule gives
TimeByRule(x) ==
    IF x = Null THEN NoTime
    ELSE IF DigitsOf(x) = <<>> THEN NoTime
    ELSE LET t  == PaddedTo4(DigitsOf(x))
             hh == 10 * DigitVal(t[1]) + DigitVal(t[2])
             mm == 10 * DigitVal(t[3]) + DigitVal(t[4])
         IN  IF Len(t) = 4 /\ hh <= 23 /\ mm <= 59 THEN <<hh, mm>> ELSE NoTime

\* C9: fix_time returns (HH, MM) exactly when the digits of the value, padded
\* with zeros to four, are four digits with HH in 0..23 and MM in 0..59, and
\* None for null, for no digits, for more than four digits and out of range.
C9_FixTime ==
    Returned("fix_time") =>
        /\ call.ret = TimeByRule(call.args[1])
        /\ call.args[1] = <<"6","3","5">> => call.ret = <<6, 35>>
        /\ call.args[1] = <<"1">> => call.ret = <<0, 1>>
        /\ call.args[1] \in {<<>>, Null} => call.ret = NoTime

\* a value of fewer than four digits among other characters, parsed
C9_Witness ==
    /\ Returned("fix_time")
    /\ call.args[1] # Null
    /\ Len(DigitsOf(call.args[1])) = 3
    /\ Len(call.args[1]) > 3
    /\ call.ret = <<9, 5>>

-----------------------------------------------------------------------------
(* Properties of extract_coord *)

\* s[i..j] is a signed decimal number: an optional sign, one to three digits,
\* a point, at least one digit
IsNumber(s, i, j) ==
    LET b == IF s[i] \in {"-", "+"} THEN i + 1 ELSE i
    IN  \E dot \in (b + 1)..(j - 1) :
           /\ dot - b <= 3
           /\ s[dot] = "."
           /\ \A k \in b..(dot - 1) : IsDigit(s[k])
           /\ \A k \in (dot + 1)..j : IsDigit(s[k])

\* s[i..j] is one or more commas and spaces
IsCommasSpaces(s, i, j) == i <= j /\ \A k \in i..j : s[k] \in {",", " "}

\* s[i..j] is one or more commas and spaces, then any whitespace
IsSeparator(s, i, j) ==
    \E m \in i..j :
       /\ \A k \in i..m : s[k] \in {",", " "}
       /\ \A k \in (m + 1)..j : IsSpace(s[k])

\* the positions at which a number starting at i can end
NumberEnds(s, i) == {j \in (i + 1)..Len(s) : IsNumber(s, i, j)}

\* the pairs of numbers, as <<i, j, k, l>> for s[i..j] and s[k..l], with what
\* lies between them a separator
Pairs(s, Sep(_, _, _)) ==
    UNION { UNION { UNION { { <<i, j, k, l>> : l \in NumberEnds(s, k) }
                            : k \in {m \in (j + 2)..Len(s) : Sep(s, j + 1, m - 1)} }
                    : j \in NumberEnds(s, i) }
            : i \in 1..Len(s) }

\* the first pair in the text, each number taken with all its digits
FirstPair(s, Sep(_, _, _)) ==
    IF s = Null \/ Pairs(s, Sep) = {} THEN NoCoord
    ELSE LET i == Min({q[1] : q \in Pairs(s, Sep)})
             l == Max({q[4] : q \in {r \in Pairs(s, Sep) : r[1] = i}})
             q == CHOOSE r \in Pairs(s, Sep) : r[1] = i /\ r[4] = l
         IN  <<Float(SubSeq(s, q[1], q[2])), Float(SubSeq(s, q[3], q[4]))>>

\* C10 as stated: extract_coord returns the first pair of signed decimal
\* numbers separated by commas and/or spaces, and nothing when there is none.
C10_CommaSpacePair ==
    Returned("extract_coord") => call.ret = FirstPair(call.args[1], IsCommasSpaces)

\* C10: extract_coord returns the first pair of signed decimal numbers (one to
\* three integer digits, a point, at least one fraction digit) separated by one
\* or more commas and spaces that further whitespace may follow, as (latitude,
\* longitude) in the order met, with no range check; and nothing for null, for
\* fewer than two such numbers, and for a plain address.
C10_ExtractCoord ==
    Returned("extract_coord") =>
        /\ call.ret = FirstPair(call.args[1], IsSeparator)
        /\ call.args[1] = <<"3","4",".","0","5"," ","-","1","1","8",".","2","4">> =>
              call.ret = << [neg |-> FALSE, units |-> 34, frac |-> <<"0","5">>],
                            [neg |-> TRUE, units |-> 118, frac |-> <<"2","4">>] >>
        /\ call.args[1] = <<"1","2","3","4"," ","M","a","i","n"," ","S","t",","," ","L","A">> =>
              call.ret = NoCoord

\* a text in which the pair does not start the text, its numbers are parted by
\* a comma, a space and a line break, and the second is out of range
C10_Witness ==
    /\ Returned("extract_coord")
    /\ call.args[1] # Null
    /\ \E i \in 1..Len(call.args[1]) : call.args[1][i] \in {"\t", "\n"}
    /\ ~IsDigit(call.args[1][1])
    /\ call.ret # NoCoord
    /\ call.ret[2].units > 180

-----------------------------------------------------------------------------
(* Properties of the aggregates *)

\* the sections of Q4.py after top_areas and top_crimes are computed
AfterTop == {"plot_areas", "plot_monthly", "export", "close", "done"}

\* the sections of Q4.py after the temporal aggregates are computed
AfterTimeFeatures == {"top"} \cup AfterTop

\* the row at which a group key is first met
FirstSeen(keys, k) == Min({i \in 1..Len(keys) : keys[i] = k})

\* a table is in descending order of Incidents, rows of equal Incidents in the
\* order their keys are first met in the rows
DescendingFirstSeen(t, keys) ==
    \A a \in 1..Len(t) : \A b \in (a + 1)..Len(t) :
        \/ t[a].Incidents > t[b].Incidents
        \/ /\ t[a].Incidents = t[b].Incidents
           /\ FirstSeen(keys, t[a].key) < FirstSeen(keys, t[b].key)

\* C11: top_areas and top_crimes of Q4.py, and area_counts of All.py, are in
\* descending order of Incidents, and groups of equal count are in the order in
\* which they are first met in the rows.
C11_CategoricalOrdering ==
    /\ (script = "Q4" /\ pc \in AfterTop) =>
          /\ DescendingFirstSeen(aggs.top_areas, df_time.data[N_AREA_NAME_alias])
          /\ DescendingFirstSeen(aggs.top_crimes, df_time.data[N_Crm_Cd_Desc_alias])
    /\ (script = "All" /\ pc \in {"daily", "done"}) =>
          DescendingFirstSeen(aggs.area_counts, df.data[N_AREA_NAME])

\* the keys of a table are in strictly ascending order (so no key is listed
\* twice) and every count is a positive integer
StrictlyAscendingPositive(t) ==
    /\ \A a \in 1..Len(t) : \A b \in (a + 1)..Len(t) : t[a].key < t[b].key
    /\ \A a \in 1..Len(t) : t[a].Incidents \in Nat \ {0}

\* C12: daily_crime, weekly_crime and monthly_crime each list every bucket key
\* at most once, in strictly ascending key order, with every count a strictly
\* positive integer.
C12_TemporalOrdering ==
    (script = "Q4" /\ pc \in AfterTimeFeatures) =>
        /\ StrictlyAscendingPositive(aggs.daily_crime)
        /\ StrictlyAscendingPositive(aggs.weekly_crime)
        /\ StrictlyAscendingPositive(aggs.monthly_crime)

\* a finished run over rows met in descending date order: two rows of the later
\* day first, then one of the earlier day
C12_Witness ==
    /\ script = "Q4" /\ pc = "done"
    /\ FrameLen(df_time) = 3
    /\ df_time.data[N_DATE_OCC] = <<Parsed(6), Parsed(6), Parsed(1)>>
    /\ Len(aggs.daily_crime) = 2 /\ Len(aggs.weekly_crime) = 2 /\ Len(aggs.monthly_crime) = 2
    /\ aggs.monthly_crime[1].Incidents = 1 /\ aggs.monthly_crime[2].Incidents = 2

\* the sum of the Incidents column of a table
TotalIncidents(t) == SumSeq([i \in 1..Len(t) |-> t[i].Incidents])

\* the aggregates of Q4.py that section 12 exports
ExportedAggregates ==
    {"monthly_crime", "daily_crime", "weekly_crime", "top_areas", "top_crimes"}

\* C13: once Q4.py has computed its aggregates, the Incidents of each of them
\* sum to the number of rows whose occurrence timestamp is non-null, and the
\* rows they count are rows whose DATE_OCC value parsed.
C13_CountConservation ==
    (script = "Q4" /\ pc \in AfterTop /\ DbHasOcc) =>
        /\ \A t \in ExportedAggregates :
              TotalIncidents(aggs[t]) = NotNaCount(df.data[N_DATE_OCC])
        /\ \A i \in Range(df_time.index) : RawOcc[i].p # NaT

\* the sections of Q4.py after the alias columns are set
AfterAlias == {"date_column", "filter", "time_features"} \cup AfterTimeFeatures

\* the alias column holds Unknown on every row when the role has no column,
\* and on every row whose value in the role's column is null
UnknownWhenMissing(alias, col) ==
    \A i \in 1..FrameLen(df) :
        (col = NoCol \/ df.data[col][i] = Null) => df.data[alias][i] = Unknown

\* C14: in every row the area value and the crime-description value are the
\* text Unknown when the role has no resolved column or the row's raw value in
\* the resolved column is null.
C14_UnknownSentinel ==
    (script = "Q4" /\ pc \in AfterAlias) =>
        /\ UnknownWhenMissing(N_AREA_NAME_alias, area_col)
        /\ UnknownWhenMissing(N_Crm_Cd_Desc_alias, crime_col)

\* C15: on a non-empty table that lacks one of the columns Q4.py reads, or holds
\* malformed cells, the run of Q4.py never ends by raising.
C15_FieldFailuresRecovered ==
    (script = "Q4" /\ Loaded /\ loaded_len > 0) => pc # "raised"

-----------------------------------------------------------------------------
(* Properties of the charts *)

AfterPlotAreas == {"plot_monthly", "export", "close", "done"}

AfterPlotMonthly == {"export", "close", "done"}

\* C16: q4_top_areas.png is saved exactly when top_areas is non-empty and
\* q4_monthly_trend.png exactly when monthly_crime is non-empty, never from an
\* empty table, and the bar chart shows the first ten rows of top_areas, or
\* all of them when they are fewer.
C16_ChartsFollowAggregate ==
    script = "Q4" =>
        /\ "q4_top_areas.png" \in files => (pc \in AfterPlotAreas /\ aggs.top_areas # <<>>)
        /\ "q4_monthly_trend.png" \in files =>
              (pc \in AfterPlotMonthly /\ aggs.monthly_crime # <<>>)
        /\ pc \in AfterPlotAreas =>
              /\ aggs.top_areas # <<>> => "q4_top_areas.png" \in files
              /\ Len(plotted.top_areas) = Min({10, Len(aggs.top_areas)})
              /\ plotted.top_areas = SubSeq(aggs.top_areas, 1, Len(plotted.top_areas))
        /\ pc \in AfterPlotMonthly =>
              /\ aggs.monthly_crime # <<>> => "q4_monthly_trend.png" \in files
              /\ plotted.monthly_crime = aggs.monthly_crime

\* a finished run over more than ten areas: both charts saved, the bar chart
\* with ten of the groups
C16_Witness ==
    /\ script = "Q4" /\ pc = "done"
    /\ Len(aggs.top_areas) > 10
    /\ Len(plotted.top_areas) = 10
    /\ ChartFiles \subseteq files

-----------------------------------------------------------------------------
(* Properties of the day-first retry *)

\* the sections of Q4.py between the day-first retry and the date-column mapping
BeforeDateColumn == {"parse_time", "extract_coords", "alias", "date_column"}

\* C17: on a non-empty table the day-first retry is made exactly when the
\* default policy parses fewer than 20% of the DATE_OCC values, and DATE_OCC
\* then holds the retry's result when it parses strictly more values than the
\* default policy did, and the default policy's result otherwise.
C17_FallbackTrigger ==
    (script = "Q4" /\ pc \in BeforeDateColumn /\ DbHasOcc /\ Len(RawOcc) > 0) =>
        /\ fallback.bound <=> 5 * PrimaryCount < Len(RawOcc)
        /\ df.data[N_DATE_OCC] =
              IF fallback.bound /\ NotNaCount(fallback.values) > PrimaryCount
              THEN fallback.values
              ELSE ToDatetime(RawOcc)

-----------------------------------------------------------------------------
(* Properties of the canonical table *)

\* the table has been filtered to the rows that have a DATE_OCC
Filtered ==
    \/ script = "Q4" /\ pc \in AfterFilter
    \/ script = "All" /\ pc \in {"area_counts", "daily", "done"}

\* C18: after the filter on DATE_OCC, in Q4.py and in All.py, the table the
\* script loaded (df, df_q5) still holds every loaded row.
C18_ExclusionLocal ==
    Filtered =>
        /\ FrameLen(df) = loaded_len
        /\ df.index = [i \in 1..loaded_len |-> i]

-----------------------------------------------------------------------------
(* Properties of the role bindings *)

\* the sections of Q4.py after line 69 has parsed DATE_OCC
AfterParseDates == {"dayfirst"} \cup AfterDayfirst

\* the column of the table whose values the occurrence timestamps are taken
\* from: DATE_OCC, unless another date column has been mapped over it
OccurrenceColumn ==
    IF fallback_date \in {Unbound, NoCol} THEN N_DATE_OCC ELSE fallback_date

\* C19: in a run of Q4.py the column bound to the area role, to the crime
\* description role and to the occurrence timestamp role, once bound, is the
\* same at every later step.
C19_RoleBindingsFixed ==
    [][script = "Q4" =>
          /\ area_col # Unbound => area_col' = area_col
          /\ crime_col # Unbound => crime_col' = crime_col
          /\ pc \in AfterParseDates => OccurrenceColumn' = OccurrenceColumn]_vars

-----------------------------------------------------------------------------
(* Properties of the coordinate columns *)

\* the sections of Q4.py after Lat and Lon are set
AfterExtractCoords == {"alias"} \cup AfterAlias

DbHasLocation == \E c \in Range(db.columns) : Strip(c) = N_LOCATION

\* C20: after section 6 of Q4.py, in every row Lat is null exactly when Lon is
\* null, and when the table has no LOCATION column both are null in every row.
C20_CoordinatePairs ==
    (script = "Q4" /\ pc \in AfterExtractCoords) =>
        \A i \in 1..FrameLen(df) :
            /\ df.data[N_Lat][i] = <<>> <=> df.data[N_Lon][i] = <<>>
            /\ ~DbHasLocation => (df.data[N_Lat][i] = <<>> /\ df.data[N_Lon][i] = <<>>)

\* a finished run over a table whose first LOCATION holds a pair and whose
\* second is an address
C20_Witness ==
    /\ script = "Q4" /\ pc = "done" /\ DbHasLocation
    /\ FrameLen(df) = 2
    /\ df.data[N_Lat][1] # <<>> /\ df.data[N_Lon][1] # <<>>
    /\ df.data[N_Lat][2] = <<>> /\ df.data[N_Lon][2] = <<>>

====
